---- MODULE Spec2Model ----
(***************************************************************************)
(* The "no tabs" title control of the editor part                          *)
(* (src/vs/workbench/browser/parts/editor/noTabsTitleControl.ts).          *)
(*                                                                         *)
(* The control is bound to one editor group (its context), derives the     *)
(* title label / toolbar presentation from that group in doRefresh, and    *)
(* routes DOM and gesture events on the title container to workbench       *)
(* requests (focus, pin, close, quick open, context menu).                 *)
(*                                                                         *)
(* The state is: the control's own fields, the widgets it writes, the      *)
(* part of the workbench it reads (stacks model, tab options, editors),    *)
(* and the UI event loop (the event being dispatched with the listeners    *)
(* still to run, pending setTimeout callbacks, pending close promises).    *)
(* JavaScript is run-to-completion: a listener is one atomic action, and   *)
(* timers, promise callbacks and workbench changes only run between        *)
(* dispatches.                                                             *)
(***************************************************************************)
EXTENDS Integers, Sequences, FiniteSets, TLC

VARIABLES
    context,         \* TitleControl.context: the bound group, or NoGroup
    toolbarContext,  \* editorActionsToolbar.context.group
    numGroups,       \* stacks.groups.length
    activeGroup,     \* the group for which stacks.isActive() is true
    activeEditor,    \* group.activeEditor, per group
    preview,         \* groups whose active editor is not pinned
    dirty,           \* editors for which isDirty() is true
    labelFormat,     \* editorGroupService.getTabOptions().labelFormat
    dragged,         \* TitleControl.dragged
    label,           \* what the ResourceLabel shows
    classes,         \* CSS classes of the title container
    color,           \* editorLabel.element.style.color
    toolbar,         \* what the editor actions toolbar shows
    fresh,           \* TRUE from a doRefresh until the state it read changes
    turn,            \* the event-loop task being run, with its remaining listeners
    out,             \* calls made to collaborators during the current task
    threw,           \* a listener of the current task (or doRefresh) threw
    timers,          \* pending setTimeout callbacks
    closes,          \* pending promises of closeEditorAction.run
    disposed,        \* the control has been disposed
    live,            \* the registrations of create() still in force
    toUnbind,        \* TitleControl.toUnbind: the handles to release on dispose
    released         \* how often each handle has been released

ctlVars    == <<context, toolbarContext>>
worldVars  == <<numGroups, activeGroup, activeEditor, preview, dirty, labelFormat, dragged>>
widgetVars == <<label, classes, color, toolbar>>
regVars    == <<live, toUnbind, released>>
loopVars   == <<turn, out, threw, timers, closes, disposed, live, toUnbind, released>>
vars       == <<context, toolbarContext, numGroups, activeGroup, activeEditor, preview,
                dirty, labelFormat, dragged, label, classes, color, toolbar, fresh,
                turn, out, threw, timers, closes, disposed, live, toUnbind, released>>

----------------------------------------------------------------------------
(* Bounds of the model *)

MaxGroups == 3   \* stacks.groups.length ranges over 1..MaxGroups
MaxTimers == 2   \* pending setTimeout callbacks
MaxCloses == 2   \* pending close promises

----------------------------------------------------------------------------
(* Values *)

Groups   == {"g1", "g2"}
NoGroup  == "null"           \* this.context is null / undefined
Editors  == {"e1", "e2"}
NoEditor == "null"           \* group.activeEditor is null
Null     == "<null>"         \* a string-valued query answered null / undefined
TypeError == "TypeError"     \* the outcome of reading a property of null

SHORT  == "SHORT"
MEDIUM == "MEDIUM"
LONG   == "LONG"
Verbosity == {SHORT, MEDIUM, LONG}

LabelFormats == {"default", "short", "medium", "long", "", "full"}

TAB_ACTIVE_FOREGROUND == "tab.activeForeground"
TAB_UNFOCUSED_ACTIVE_FOREGROUND == "tab.unfocusedActiveForeground"

(* The editors the groups hold.  e1 is a file: its description and title   *)
(* grow with the verbosity.  e2 has no SHORT description, and its other    *)
(* descriptions are its title.                                             *)
getName(e) ==
    IF e = "e1" THEN "a.ts" ELSE "Settings"

getDescription(e, v) ==
    IF e = "e1"
    THEN (CASE v = SHORT -> "src" [] v = MEDIUM -> "ws/src" [] OTHER -> "/home/ws/src")
    ELSE (CASE v = SHORT -> Null [] OTHER -> "Settings")

getTitle(e, v) ==
    IF e = "e1"
    THEN (CASE v = SHORT -> "a.ts" [] v = MEDIUM -> "ws/src/a.ts" [] OTHER -> "/home/ws/src/a.ts")
    ELSE "Settings"

toResource(e) ==
    IF e = "e1" THEN "file:///home/ws/src/a.ts" ELSE Null

isDirty(e) == e \in dirty

\* group.isPinned(editor): every editor of a group but its preview editor
isPinned(group, editor) == ~(group \in preview /\ activeEditor[group] = editor)

\* stacks.isActive(group)
isActive(group) == group = activeGroup

\* getColor(id): the theme resolves a color id to a color
getColor(id) == id

\* s || ''
OrEmpty(s) == IF s = Null THEN "" ELSE s

\* g.activeEditor, as JavaScript evaluates it
PropActiveEditor(g) == IF g = NoGroup THEN TypeError ELSE activeEditor[g]

----------------------------------------------------------------------------
(* Widgets *)

ClearedLabel ==
    [shown |-> FALSE, name |-> "", description |-> "", resource |-> Null,
     title |-> "", italic |-> FALSE, extraClasses |-> {}]

\* ResourceLabel.setLabel({name, description, resource}, {title, italic, extraClasses})
setLabel(name, description, resource, title, italic, extraClasses) ==
    [shown |-> TRUE, name |-> name, description |-> description, resource |-> resource,
     title |-> title, italic |-> italic, extraClasses |-> extraClasses]

ClearedToolbar == [shown |-> FALSE, editor |-> NoEditor]

\* TitleControl.clearEditorActionsToolbar()
clearEditorActionsToolbar == ClearedToolbar

\* TitleControl.updateEditorActionsToolbar(): the actions of the bound group's editor
updateEditorActionsToolbar == [shown |-> TRUE, editor |-> activeEditor[context]]

addClass(cs, c)    == cs \cup {c}
removeClass(cs, c) == cs \ {c}

----------------------------------------------------------------------------
(* The event loop's task; setContext *)

NoNode == "undefined"
MiddleButton == 1
NoButton == -1

NoEvent ==
    [type |-> "none", mouse |-> FALSE, button |-> NoButton, target |-> NoNode,
     initialTarget |-> NoNode]

\* An event-loop task: its kind, the event dispatched, the listeners still to
\* run and those that ran
Task(kind, ev, todo, ran) == [kind |-> kind, ev |-> ev, todo |-> todo, ran |-> ran]

Idle == Task("idle", NoEvent, <<>>, <<>>)

\* setContext that binds the control and forgets the toolbar
setContext_ControlOnly(group) ==
    /\ turn.kind = "idle"
    /\ ~disposed
    /\ context' = group
    /\ fresh' = FALSE
    /\ UNCHANGED <<toolbarContext, worldVars, widgetVars, loopVars>>

\* lines 22-26
setContext(group) ==
    /\ turn.kind = "idle"
    /\ ~disposed
    /\ context' = group                    \* super.setContext(group)
    /\ toolbarContext' = group             \* this.editorActionsToolbar.context = { group }
    /\ fresh' = FALSE
    /\ UNCHANGED <<worldVars, widgetVars, loopVars>>

----------------------------------------------------------------------------
(* doRefresh *)

\* getVerbosity knowing "default" and taking what it does not know for short
getVerbosity_UnknownShort(style) ==
    CASE style = "short" -> SHORT
      [] style = "long" -> LONG
      [] style = "default" -> MEDIUM
      [] OTHER -> SHORT

\* lines 157-163

getVerbosity(style) ==
    CASE style = "short" -> SHORT
      [] style = "long" -> LONG
      [] OTHER -> MEDIUM

\* const editor = group && group.activeEditor
RefreshEditor(group) ==
    IF group = NoGroup THEN NoEditor ELSE PropActiveEditor(group)

\* Description hiding the description of every group under "default"
Description_DefaultHides(editor, format, active) ==
    IF format = "default"
    THEN ""
    ELSE OrEmpty(getDescription(editor, getVerbosity(format)))

\* lines 133-139
Description(editor, format, active) ==
    IF format = "default" /\ ~active
    THEN ""
    ELSE OrEmpty(getDescription(editor, getVerbosity(format)))

\* Title compared with the editor's own description, not with the one shown
Title_OwnDescription(editor, description) ==
    LET title == getTitle(editor, LONG)
    IN  IF OrEmpty(getDescription(editor, getVerbosity(labelFormat))) = title
        THEN "" ELSE title

\* lines 141-144
Title(editor, description) ==
    LET title == getTitle(editor, LONG)
    IN  IF description = title THEN "" ELSE title

\* RefreshEmpty forgetting the toolbar
RefreshEmpty_KeepsToolbar ==
    /\ label' = ClearedLabel
    /\ threw' = FALSE
    /\ UNCHANGED <<classes, color, toolbar>>

\* lines 105-110: nothing to show
RefreshEmpty ==
    /\ label' = ClearedLabel               \* this.editorLabel.clear()
    /\ toolbar' = clearEditorActionsToolbar
    /\ threw' = FALSE
    /\ UNCHANGED <<classes, color>>

\* RefreshShown toggling the dirty class of a dirty editor instead of adding it
RefreshShown_TogglesDirty(group, editor) ==
    LET pinned      == isPinned(group, PropActiveEditor(group))
        active      == isActive(group)
        withActive  == IF active THEN addClass(classes, "active")
                                 ELSE removeClass(classes, "active")
        withDirty   == IF isDirty(editor) /\ "dirty" \notin withActive
                       THEN addClass(withActive, "dirty")
                       ELSE removeClass(withActive, "dirty")
        description == Description(editor, labelFormat, active)
    IN  /\ classes' = withDirty
        /\ label' = setLabel(OrEmpty(getName(editor)), description, toResource(editor),
                             Title(editor, description), ~pinned, {"title-label"})
        /\ color' = IF active THEN getColor(TAB_ACTIVE_FOREGROUND)
                              ELSE getColor(TAB_UNFOCUSED_ACTIVE_FOREGROUND)
        /\ toolbar' = updateEditorActionsToolbar
        /\ threw' = FALSE

\* RefreshShown with the italic hint inverted and one color for every group
RefreshShown_PinnedItalic(group, editor) ==
    LET pinned      == isPinned(group, PropActiveEditor(group))
        active      == isActive(group)
        withActive  == IF active THEN addClass(classes, "active")
                                 ELSE removeClass(classes, "active")
        withDirty   == IF isDirty(editor) THEN addClass(withActive, "dirty")
                                          ELSE removeClass(withActive, "dirty")
        description == Description(editor, labelFormat, active)
    IN  /\ classes' = withDirty
        /\ label' = setLabel(OrEmpty(getName(editor)), description, toResource(editor),
                             Title(editor, description), pinned, {"title-label"})
        /\ color' = getColor(TAB_ACTIVE_FOREGROUND)
        /\ toolbar' = updateEditorActionsToolbar
        /\ threw' = FALSE

\* lines 112-154
RefreshShown(group, editor) ==
    LET pinned      == isPinned(group, PropActiveEditor(group))
        active      == isActive(group)
        withActive  == IF active THEN addClass(classes, "active")
                                 ELSE removeClass(classes, "active")
        withDirty   == IF isDirty(editor) THEN addClass(withActive, "dirty")
                                          ELSE removeClass(withActive, "dirty")
        resource    == toResource(editor)
        name        == OrEmpty(getName(editor))
        description == Description(editor, labelFormat, active)
        title       == Title(editor, description)
    IN  /\ classes' = withDirty
        /\ label' = setLabel(name, description, resource, title, ~pinned, {"title-label"})
        /\ color' = IF active THEN getColor(TAB_ACTIVE_FOREGROUND)
                              ELSE getColor(TAB_UNFOCUSED_ACTIVE_FOREGROUND)
        /\ toolbar' = updateEditorActionsToolbar
        /\ threw' = FALSE

doRefresh ==
    /\ turn.kind = "idle"
    /\ ~disposed
    /\ LET group  == context
           editor == RefreshEditor(group)
       IN  IF editor = TypeError
           THEN threw' = TRUE /\ UNCHANGED widgetVars
           ELSE IF editor = NoEditor
                THEN RefreshEmpty
                ELSE RefreshShown(group, editor)
    /\ fresh' = TRUE
    /\ UNCHANGED <<ctlVars, worldVars, turn, out, timers, closes, disposed, regVars>>

----------------------------------------------------------------------------
(* The workbench changing under the control *)

ActivateGroup(g) ==
    /\ turn.kind = "idle"
    /\ activeGroup' = g
    /\ fresh' = FALSE
    /\ UNCHANGED <<ctlVars, numGroups, activeEditor, preview, dirty, labelFormat, dragged,
                   widgetVars, loopVars>>

OpenEditor(g, e) ==
    /\ turn.kind = "idle"
    /\ activeEditor' = [activeEditor EXCEPT ![g] = e]
    /\ fresh' = FALSE
    /\ UNCHANGED <<ctlVars, numGroups, activeGroup, preview, dirty, labelFormat, dragged,
                   widgetVars, loopVars>>

CloseEditors(g) ==
    /\ turn.kind = "idle"
    /\ activeEditor' = [activeEditor EXCEPT ![g] = NoEditor]
    /\ fresh' = FALSE
    /\ UNCHANGED <<ctlVars, numGroups, activeGroup, preview, dirty, labelFormat, dragged,
                   widgetVars, loopVars>>

TogglePreview(g) ==
    /\ turn.kind = "idle"
    /\ preview' = IF g \in preview THEN preview \ {g} ELSE preview \cup {g}
    /\ fresh' = FALSE
    /\ UNCHANGED <<ctlVars, numGroups, activeGroup, activeEditor, dirty, labelFormat, dragged,
                   widgetVars, loopVars>>

ToggleDirty(e) ==
    /\ turn.kind = "idle"
    /\ dirty' = IF e \in dirty THEN dirty \ {e} ELSE dirty \cup {e}
    /\ fresh' = FALSE
    /\ UNCHANGED <<ctlVars, numGroups, activeGroup, activeEditor, preview, labelFormat, dragged,
                   widgetVars, loopVars>>

SetLabelFormat(f) ==
    /\ turn.kind = "idle"
    /\ labelFormat' = f
    /\ fresh' = FALSE
    /\ UNCHANGED <<ctlVars, numGroups, activeGroup, activeEditor, preview, dirty, dragged,
                   widgetVars, loopVars>>

----------------------------------------------------------------------------
(* The title container's DOM, as create() builds it (lines 28-56) *)

Nodes == {"titleContainer", "label", "actionsContainer", "toolbar", "toolbarButton"}

parentNode(n) ==
    CASE n = "label"            -> "titleContainer"
      [] n = "actionsContainer" -> "titleContainer"
      [] n = "toolbar"          -> "actionsContainer"
      [] n = "toolbarButton"    -> "toolbar"
      [] OTHER                  -> NoNode

\* DOM.isAncestor(testChild, testAncestor): testAncestor is testChild or above it
RECURSIVE isAncestor(_, _)
isAncestor(testChild, testAncestor) ==
    IF testChild = NoNode THEN FALSE
    ELSE IF testChild = testAncestor THEN TRUE
    ELSE isAncestor(parentNode(testChild), testAncestor)

\* this.editorActionsToolbar.getContainer().getHTMLElement()
ToolbarRoot == "toolbar"

----------------------------------------------------------------------------
(* Input events *)

\* A MouseEvent: e instanceof MouseEvent, button and target set, no initialTarget
MouseEvents(type, buttons) ==
    [type : {type}, mouse : {TRUE}, button : buttons, target : Nodes,
     initialTarget : {NoNode}]

\* A GestureEvent: a custom event dispatched on the gesture target, which keeps
\* the touched node as initialTarget
GestureEvents(type) ==
    [type : {type}, mouse : {FALSE}, button : {NoButton}, target : {"titleContainer"},
     initialTarget : Nodes]

Events ==
    MouseEvents("dblclick", {0})
    \cup MouseEvents("click", {0, 1, 2})
    \cup GestureEvents("tap")
    \cup MouseEvents("contextmenu", {2})
    \cup GestureEvents("gesturecontextmenu")

\* What create() registers: the gesture target (line 34) and the listeners
\* (lines 37-60)
CreateRegistrations ==
    {"gestureTarget", "dblclick", "click", "tap", "labelClick", "contextmenu",
     "gesturecontextmenu"}

\* What create() pushes on toUnbind (lines 37-60), in order
CreateToUnbind ==
    <<"dblclick", "click", "tap", "editorLabel", "labelClick", "contextmenu",
      "gesturecontextmenu">>

Handles == CreateRegistrations \cup {"editorLabel"}

\* The container's listener an event of a type is delivered to
RegistrationOf(type) == type

\* The listeners create() registers (lines 37-60), in the order an event reaches
\* them: the label's click listener sits below the container's
Listeners(e) ==
    CASE e.type = "dblclick" -> <<"onTitleDoubleClick">>
      [] e.type = "click" ->
            IF isAncestor(e.target, "label")
            THEN <<"onTitleLabelClick", "onTitleClick">>
            ELSE <<"onTitleClick">>
      [] e.type = "tap" -> <<"onTitleClick">>
      [] OTHER -> <<"onContextMenu">>

----------------------------------------------------------------------------
(* Calls to collaborators *)

Call(op, group, editor, anchor) ==
    [op |-> op, group |-> group, editor |-> editor, anchor |-> anchor]

pinEditor(group, editor)  == Call("pinEditor", group, editor, NoNode)
focusGroup(group)         == Call("focusGroup", group, NoEditor, NoNode)
closeEditorAction(group, editor) == Call("closeEditorAction.run", group, editor, NoNode)
setTimeoutShow            == Call("setTimeout", NoGroup, NoEditor, NoNode)
quickOpenShow             == Call("quickOpenService.show", NoGroup, NoEditor, NoNode)
onUnexpectedError         == Call("onUnexpectedError", NoGroup, NoEditor, NoNode)

\* TitleControl.onContextMenu(identifier, e, node): shows the menu for the
\* identifier, anchored at the node
onContextMenu(group, editor, node) == Call("showContextMenu", group, editor, node)

\* What a listener did: the calls it made, and whether it threw
Did(calls)  == [calls |-> calls, threw |-> FALSE]
Threw       == [calls |-> <<>>, threw |-> TRUE]

----------------------------------------------------------------------------
(* The listeners *)

\* onTitleLabelClick showing quick open at once
onTitleLabelClick_Sync(e) ==
    IF ~dragged THEN Did(<<quickOpenShow>>) ELSE Did(<<>>)

\* lines 63-68
onTitleLabelClick(e) ==
    IF ~dragged THEN Did(<<setTimeoutShow>>) ELSE Did(<<>>)

\* onTitleDoubleClick pinning in the workbench's active group
onTitleDoubleClick_ActiveGroup(e) ==
    IF context = NoGroup
    THEN Did(<<>>)
    ELSE LET group  == activeGroup
             editor == PropActiveEditor(group)
         IN  Did(<<pinEditor(group, editor)>>)

\* onTitleDoubleClick without its guard
onTitleDoubleClick_NoGuard(e) ==
    LET group  == context
        editor == PropActiveEditor(group)
    IN  IF editor = TypeError THEN Threw ELSE Did(<<pinEditor(group, editor)>>)

\* lines 70-79
onTitleDoubleClick(e) ==
    IF context = NoGroup
    THEN Did(<<>>)
    ELSE LET group  == context
             editor == PropActiveEditor(group)
         IN  Did(<<pinEditor(group, editor)>>)

\* isMiddleClick taking every mouse button for the middle one
isMiddleClick_AnyButton(e) == e.mouse

\* line 89
isMiddleClick(e) == e.mouse /\ e.button = MiddleButton

\* line 97: (e as GestureEvent).initialTarget || e.target || e.srcElement
originalTarget(e) ==
    IF e.initialTarget # NoNode THEN e.initialTarget ELSE e.target

\* shouldFocus looking at the event's target only
shouldFocus_TargetOnly(e) ==
    /\ (numGroups = 1 \/ ~e.mouse)
    /\ ~isAncestor(e.target, ToolbarRoot)

\* line 97
shouldFocus(e) ==
    /\ (numGroups = 1 \/ ~e.mouse)
    /\ ~isAncestor(originalTarget(e), ToolbarRoot)

\* onTitleClick with "if" for "else if": a middle click may focus as well
onTitleClick_NoElse(e) ==
    IF context = NoGroup
    THEN Did(<<>>)
    ELSE LET group == context
         IN  Did((IF isMiddleClick(e)
                  THEN <<closeEditorAction(group, PropActiveEditor(group))>> ELSE <<>>)
                 \o (IF shouldFocus(e) THEN <<focusGroup(group)>> ELSE <<>>))

\* lines 81-100
onTitleClick(e) ==
    IF context = NoGroup
    THEN Did(<<>>)
    ELSE LET group == context
         IN  IF isMiddleClick(e)
             THEN Did(<<closeEditorAction(group, PropActiveEditor(group))>>)
             ELSE IF shouldFocus(e)
                  THEN Did(<<focusGroup(group)>>)
                  ELSE Did(<<>>)

\* the context menu put under the rule of the focus request
contextMenuListener_FocusRule(e) ==
    LET group  == context
        editor == PropActiveEditor(context)
    IN  IF editor = TypeError
        THEN Threw
        ELSE IF shouldFocus(e)
             THEN Did(<<onContextMenu(group, editor, "titleContainer")>>)
             ELSE Did(<<>>)

\* lines 59-60: the identifier is built before onContextMenu is called
contextMenuListener(e) ==
    LET group  == context
        editor == PropActiveEditor(context)
    IN  IF editor = TypeError
        THEN Threw
        ELSE Did(<<onContextMenu(group, editor, "titleContainer")>>)

----------------------------------------------------------------------------
(* The event loop *)

Range(seq) == {seq[i] : i \in DOMAIN seq}

Count(calls, op) == Cardinality({i \in DOMAIN calls : calls[i].op = op})

\* An input event arrives at the title container
Dispatch(e) ==
    /\ turn.kind = "idle"
    /\ RegistrationOf(e.type) \in live
    /\ "onTitleLabelClick" \in Range(Listeners(e)) => timers < MaxTimers
    /\ (e.type = "click" /\ e.button = MiddleButton) => closes < MaxCloses
    /\ turn' = Task("event", e, Listeners(e), <<>>)
    /\ out' = <<>>
    /\ threw' = FALSE
    /\ UNCHANGED <<ctlVars, worldVars, widgetVars, fresh, timers, closes, disposed, regVars>>

\* The next listener of the event runs to completion
RunListener(name, did) ==
    /\ turn.kind = "event"
    /\ turn.todo # <<>>
    /\ Head(turn.todo) = name
    /\ turn' = [turn EXCEPT !.todo = Tail(@), !.ran = Append(@, name)]
    /\ out' = out \o did.calls
    /\ threw' = (threw \/ did.threw)
    /\ timers' = timers + Count(did.calls, "setTimeout")
    /\ closes' = closes + Count(did.calls, "closeEditorAction.run")
    /\ UNCHANGED <<ctlVars, worldVars, widgetVars, fresh, disposed, regVars>>

LabelClick   == RunListener("onTitleLabelClick", onTitleLabelClick(turn.ev))
DoubleClick  == RunListener("onTitleDoubleClick", onTitleDoubleClick(turn.ev))
TitleClick   == RunListener("onTitleClick", onTitleClick(turn.ev))
ContextMenu  == RunListener("onContextMenu", contextMenuListener(turn.ev))

\* The task is over: control returns to the event loop
EndTurn ==
    /\ turn.kind # "idle"
    /\ turn.todo = <<>>
    /\ turn' = Idle
    /\ out' = <<>>
    /\ threw' = FALSE
    /\ UNCHANGED <<ctlVars, worldVars, widgetVars, fresh, timers, closes, disposed, regVars>>

\* line 66: the callback given to setTimeout runs as a task of its own
TimerFires ==
    /\ turn.kind = "idle"
    /\ timers > 0
    /\ timers' = timers - 1
    /\ turn' = Task("timer", NoEvent, <<>>, <<>>)
    /\ out' = <<quickOpenShow>>
    /\ threw' = FALSE
    /\ UNCHANGED <<ctlVars, worldVars, widgetVars, fresh, closes, disposed, regVars>>

\* CloseSettles with no error callback: a failure is dropped
CloseSettles_Swallows(ok) ==
    /\ turn.kind = "idle"
    /\ closes > 0
    /\ closes' = closes - 1
    /\ turn' = Task("settle", NoEvent, <<>>, <<IF ok THEN "resolved" ELSE "rejected">>)
    /\ out' = <<>>
    /\ threw' = FALSE
    /\ UNCHANGED <<ctlVars, worldVars, widgetVars, fresh, timers, disposed, regVars>>

\* line 90: the promise of closeEditorAction.run settles; done(null, onUnexpectedError)
CloseSettles(ok) ==
    /\ turn.kind = "idle"
    /\ closes > 0
    /\ closes' = closes - 1
    /\ turn' = Task("settle", NoEvent, <<>>, <<IF ok THEN "resolved" ELSE "rejected">>)
    /\ out' = IF ok THEN <<>> ELSE <<onUnexpectedError>>
    /\ threw' = FALSE
    /\ UNCHANGED <<ctlVars, worldVars, widgetVars, fresh, timers, disposed, regVars>>

\* TitleControl.dispose(): every handle of toUnbind is released, once
Dispose ==
    /\ turn.kind = "idle"
    /\ disposed' = TRUE
    /\ live' = live \ Range(toUnbind)
    /\ released' = [h \in Handles |->
                        released[h] + Cardinality({i \in DOMAIN toUnbind : toUnbind[i] = h})]
    /\ toUnbind' = <<>>
    /\ UNCHANGED <<ctlVars, worldVars, widgetVars, fresh, turn, out, threw, timers, closes>>

SetGroupCount(n) ==
    /\ turn.kind = "idle"
    /\ numGroups' = n
    /\ UNCHANGED <<ctlVars, activeGroup, activeEditor, preview, dirty, labelFormat, dragged,
                   widgetVars, fresh, loopVars>>

SetDragged(b) ==
    /\ turn.kind = "idle"
    /\ dragged' = b
    /\ UNCHANGED <<ctlVars, numGroups, activeGroup, activeEditor, preview, dirty, labelFormat,
                   widgetVars, fresh, loopVars>>

----------------------------------------------------------------------------
(* Construction: the control has been created and not yet bound *)

Init ==
    /\ context = NoGroup
    /\ toolbarContext = NoGroup
    /\ numGroups = 1
    /\ activeGroup = "g1"
    /\ activeEditor = [g \in Groups |-> NoEditor]
    /\ preview = {}
    /\ dirty = {}
    /\ labelFormat = "default"
    /\ dragged = FALSE
    /\ label = ClearedLabel
    /\ classes = {}
    /\ color = ""
    /\ toolbar = ClearedToolbar
    /\ fresh = FALSE
    /\ turn = Idle
    /\ out = <<>>
    /\ threw = FALSE
    /\ timers = 0
    /\ closes = 0
    /\ disposed = FALSE
    /\ live = CreateRegistrations
    /\ toUnbind = CreateToUnbind
    /\ released = [h \in Handles |-> 0]

(* The refresh path: the workbench changes, the control is rebound, and    *)
(* doRefresh runs.  No listener reads a widget and doRefresh reads nothing *)
(* of the event loop, so the input path is left out of this specification. *)
NextRefresh ==
    \/ \E g \in Groups \cup {NoGroup} : setContext(g)
    \/ doRefresh
    \/ \E g \in Groups : ActivateGroup(g)
    \/ \E g \in Groups, e \in Editors : OpenEditor(g, e)
    \/ \E g \in Groups : CloseEditors(g)
    \/ \E g \in Groups : TogglePreview(g)
    \/ \E e \in Editors : ToggleDirty(e)
    \/ \E f \in LabelFormats : SetLabelFormat(f)

SpecRefresh == Init /\ [][NextRefresh]_vars

(* The input path: events are dispatched to the listeners while the        *)
(* workbench changes what they read and the control is rebound.            *)
Next ==
    \/ \E g \in Groups \cup {NoGroup} : setContext(g)
    \/ \E n \in 1..MaxGroups : SetGroupCount(n)
    \/ \E g \in Groups, e \in Editors : OpenEditor(g, e)
    \/ \E g \in Groups : CloseEditors(g)
    \/ \E b \in BOOLEAN : SetDragged(b)
    \/ \E e \in Events : Dispatch(e)
    \/ LabelClick
    \/ DoubleClick
    \/ TitleClick
    \/ ContextMenu
    \/ EndTurn
    \/ TimerFires
    \/ \E ok \in BOOLEAN : CloseSettles(ok)
    \/ Dispose

Spec == Init /\ [][Next]_vars

(* The control as a whole: it is rebound, refreshed and receives input      *)
(* while the bound groups' editors change.                                 *)
NextBinding ==
    \/ \E g \in Groups \cup {NoGroup} : setContext(g)
    \/ doRefresh
    \/ \E g \in Groups, e \in Editors : OpenEditor(g, e)
    \/ \E g \in Groups : CloseEditors(g)
    \/ \E e \in Events : Dispatch(e)
    \/ LabelClick
    \/ DoubleClick
    \/ TitleClick
    \/ ContextMenu
    \/ EndTurn
    \/ TimerFires
    \/ \E ok \in BOOLEAN : CloseSettles(ok)

SpecBinding == Init /\ [][NextBinding]_vars

(* The event loop runs a task to its end, and a timer that is due is run   *)
(* even when input keeps arriving.                                         *)
FairSpec ==
    /\ Spec
    /\ WF_vars(LabelClick \/ DoubleClick \/ TitleClick \/ ContextMenu \/ EndTurn)
    /\ SF_vars(TimerFires)

----------------------------------------------------------------------------
(* Vocabulary of the properties *)

\* the bound group has a document to show
HasDocument == context # NoGroup /\ activeEditor[context] # NoEditor

\* the listener has run in the task of the current event
Ran(name) == turn.kind = "event" /\ name \in Range(turn.ran)

\* the node the user hit
HitNode == IF turn.ev.mouse THEN turn.ev.target ELSE turn.ev.initialTarget

InsideToolbar(n) == n \in {"toolbar", "toolbarButton"}

CallsOf(op) == {i \in DOMAIN out : out[i].op = op}

----------------------------------------------------------------------------
(* Properties of doRefresh (SpecRefresh) *)

\* C1: a refresh that finds no context or no active document clears the label
\* and the toolbar, pushes no label content and does not throw; a second
\* refresh in the same state changes nothing.
C1_RefreshEmptyClears ==
    /\ [](fresh /\ ~HasDocument =>
            /\ label = ClearedLabel
            /\ ~label.shown
            /\ toolbar = ClearedToolbar
            /\ ~threw)
    /\ [][fresh /\ fresh' /\ ~HasDocument => UNCHANGED <<widgetVars, threw>>]_vars

\* C1 witness: a bound group lost its document after one was shown, and the
\* refresh cleared the label
C1_Witness ==
    /\ fresh
    /\ context # NoGroup
    /\ activeEditor[context] = NoEditor
    /\ "dirty" \in classes
    /\ label = ClearedLabel
    /\ toolbar = ClearedToolbar

\* C6: a refresh that finds a document pushes the empty description when the
\* format is "default" and the bound group is not the active one, and
\* otherwise the document's description at the format's verbosity ("" when
\* the document has none).
C6_DescriptionRule ==
    (fresh /\ HasDocument)
    => /\ label.shown
       /\ label.description =
            IF labelFormat = "default" /\ context # activeGroup
            THEN ""
            ELSE LET d == getDescription(activeEditor[context], getVerbosity(labelFormat))
                 IN  IF d = Null THEN "" ELSE d

\* C6 witness: a background group under "default" shows a file without its
\* description
C6_Witness ==
    /\ fresh
    /\ HasDocument
    /\ labelFormat = "default"
    /\ context # activeGroup
    /\ activeEditor[context] = "e1"
    /\ label.shown
    /\ label.description = ""

\* C7: a refresh that finds a document pushes the empty tooltip when the
\* document's LONG title is the description pushed with it, and the LONG
\* title otherwise, under every label format.
C7_TitleRule ==
    (fresh /\ HasDocument)
    => /\ label.shown
       /\ label.title =
            IF getTitle(activeEditor[context], LONG) = label.description
            THEN ""
            ELSE getTitle(activeEditor[context], LONG)

\* C7 witness: the description shown is the title, so the tooltip is empty
C7_Witness ==
    /\ fresh
    /\ HasDocument
    /\ activeEditor[context] = "e2"
    /\ label.shown
    /\ label.description = "Settings"
    /\ label.title = ""

\* C8: getVerbosity is SHORT for "short", LONG for "long" and MEDIUM for every
\* other format; a refresh under any format shows the document, with the
\* description of that verbosity, and does not throw.
C8_VerbosityOfFormat ==
    LET Expected(f) == IF f = "short" THEN SHORT ELSE IF f = "long" THEN LONG ELSE MEDIUM
    IN  /\ labelFormat \in LabelFormats
        /\ getVerbosity(labelFormat) = Expected(labelFormat)
        /\ (fresh /\ HasDocument)
           => /\ ~threw
              /\ label.shown
              /\ (labelFormat # "default" \/ context = activeGroup)
                 => label.description =
                      OrEmpty(getDescription(activeEditor[context], Expected(labelFormat)))

\* C8 witness: an unknown format shows the file's MEDIUM description
C8_Witness ==
    /\ fresh
    /\ HasDocument
    /\ labelFormat = "full"
    /\ activeEditor[context] = "e1"
    /\ label.description = "ws/src"

\* C11: doRefresh is idempotent: a second refresh with nothing changed in
\* between leaves the label (content, tooltip, italic), the color, the
\* container's classes and the toolbar as the first left them.
C11_RefreshIdempotent ==
    [][(fresh /\ fresh') => UNCHANGED <<label, color, classes, toolbar>>]_vars

\* C11 witness: a refreshed title of a dirty preview editor in the active
\* group, from which a second refresh can run
C11_Witness ==
    /\ fresh
    /\ HasDocument
    /\ ENABLED doRefresh
    /\ label.shown
    /\ label.italic
    /\ classes = {"active", "dirty"}
    /\ color = TAB_ACTIVE_FOREGROUND
    /\ toolbar.shown

\* C14: the container's classes reflect only what the latest refresh saw: the
\* flags of the document it found, and neither "active" nor "dirty" when it
\* found none.
C14_NoStaleFlags ==
    fresh =>
        classes = IF HasDocument
                  THEN (IF context = activeGroup THEN {"active"} ELSE {})
                       \cup (IF activeEditor[context] \in dirty THEN {"dirty"} ELSE {})
                  ELSE {}

\* C18: after a refresh that finds a document, "active" is set iff the bound
\* group is the active group, "dirty" iff the document is dirty, the label is
\* italic iff the document is not pinned, and the color is the active
\* foreground for the active group and the unfocused one otherwise.
C18_PresentationOfState ==
    (fresh /\ HasDocument)
    => /\ ("active" \in classes) <=> (context = activeGroup)
       /\ ("dirty" \in classes) <=> (activeEditor[context] \in dirty)
       /\ label.shown
       /\ label.italic <=> (context \in preview)
       /\ label.extraClasses = {"title-label"}
       /\ color = IF context = activeGroup
                  THEN TAB_ACTIVE_FOREGROUND
                  ELSE TAB_UNFOCUSED_ACTIVE_FOREGROUND

\* C18 witness: a clean pinned editor in a background group, refreshed after
\* the title had the flags of a dirty editor in the active group
C18_Witness ==
    /\ fresh
    /\ HasDocument
    /\ context # activeGroup
    /\ context \notin preview
    /\ activeEditor[context] \notin dirty
    /\ classes = {}
    /\ ~label.italic
    /\ color = TAB_UNFOCUSED_ACTIVE_FOREGROUND

----------------------------------------------------------------------------
(* Properties of the listeners (Spec) *)

\* C2: a click or tap that is not a middle click, with a bound context, asks
\* to focus the bound group iff (there is one group or the event is a tap)
\* and the node hit is not inside the toolbar.
C2_FocusRule ==
    (Ran("onTitleClick") /\ context # NoGroup
        /\ ~(turn.ev.type = "click" /\ turn.ev.button = MiddleButton))
    => /\ \A i \in CallsOf("focusGroup") : out[i] = focusGroup(context)
       /\ Cardinality(CallsOf("focusGroup")) =
            (IF (numGroups = 1 \/ turn.ev.type = "tap") /\ ~InsideToolbar(HitNode)
             THEN 1 ELSE 0)

\* C2 witness: a tap outside the toolbar focuses although there are several groups
C2_Witness ==
    /\ Ran("onTitleClick")
    /\ turn.ev.type = "tap"
    /\ numGroups >= 2
    /\ turn.ev.initialTarget = "actionsContainer"
    /\ out = <<focusGroup(context)>>

\* C3: a middle click with a bound context asks once to close (group, its
\* active editor), asks for no focus, and does not throw; the promise settling
\* later, with or without an error, throws nothing into a listener.
C3_MiddleClickCloses ==
    /\ (Ran("onTitleClick") /\ context # NoGroup
            /\ turn.ev.type = "click" /\ turn.ev.button = MiddleButton)
       => /\ Cardinality(CallsOf("closeEditorAction.run")) = 1
          /\ \A i \in CallsOf("closeEditorAction.run") :
                out[i] = closeEditorAction(context, activeEditor[context])
          /\ CallsOf("focusGroup") = {}
          /\ closes >= 1
          /\ ~threw
    /\ turn.kind = "settle" => ~threw /\ CallsOf("closeEditorAction.run") = {}

\* C3 witness: a middle click on a toolbar button while there are several
\* groups closes the bound group's editor
C3_Witness ==
    /\ Ran("onTitleClick")
    /\ turn.ev.button = MiddleButton
    /\ numGroups >= 2
    /\ turn.ev.target = "toolbarButton"
    /\ context # NoGroup
    /\ activeEditor[context] = "e2"
    /\ \E i \in DOMAIN out : out[i] = closeEditorAction(context, "e2")

\* C4: a double click with a bound context asks once to pin (group, its
\* active editor), also when the group has none, and asks for nothing else;
\* with no context it asks for nothing and does not throw.
C4_DoubleClickPins ==
    Ran("onTitleDoubleClick")
    => /\ ~threw
       /\ out = IF context # NoGroup
                THEN <<pinEditor(context, activeEditor[context])>>
                ELSE <<>>

\* C4 witness: a double click on a bound group without an active editor
C4_Witness ==
    /\ Ran("onTitleDoubleClick")
    /\ context # NoGroup
    /\ activeEditor[context] = NoEditor
    /\ out = <<pinEditor(context, NoEditor)>>

\* C5: a label click schedules one quick-open request unless a drag is in
\* progress (then none); the request never runs in the task of an input
\* event, and a scheduled request does run in a later task.
C5_QuickOpenDeferred ==
    /\ [](Ran("onTitleLabelClick") =>
            /\ Cardinality(CallsOf("setTimeout")) = (IF dragged THEN 0 ELSE 1)
            /\ timers >= Cardinality(CallsOf("setTimeout")))
    /\ [](turn.kind = "event" => CallsOf("quickOpenService.show") = {})
    /\ [][(Ran("onTitleLabelClick")' /\ ~Ran("onTitleLabelClick"))
            => timers' = timers + (IF dragged THEN 0 ELSE 1)]_vars
    /\ (timers > 0) ~> (turn.kind = "timer" /\ out = <<quickOpenShow>>)

\* C5 witness: the label was clicked with no drag in progress; its listener
\* and the container's have run and the request is pending
C5_Witness ==
    /\ turn.kind = "event"
    /\ turn.ran = <<"onTitleLabelClick", "onTitleClick">>
    /\ ~dragged
    /\ timers = 1
    /\ out = <<setTimeoutShow, focusGroup(context)>>

\* C9: a context-menu event with a bound context opens one menu for (the
\* bound group, its active editor) at the title container, whatever the
\* device, the node hit and the number of groups, and asks for nothing else.
C9_ContextMenuOpens ==
    (Ran("onContextMenu") /\ context # NoGroup)
    => /\ ~threw
       /\ out = <<[op |-> "showContextMenu", group |-> context,
                   editor |-> activeEditor[context], anchor |-> "titleContainer"]>>

\* C9 witness: a touch context menu on a toolbar button with several groups
C9_Witness ==
    /\ Ran("onContextMenu")
    /\ turn.ev.type = "gesturecontextmenu"
    /\ turn.ev.initialTarget = "toolbarButton"
    /\ numGroups >= 2
    /\ context # NoGroup
    /\ Len(out) = 1
    /\ out[1].op = "showContextMenu"

\* C10: a context-menu event that arrives while the context is unbound does
\* not throw.
C10_UnboundContextMenuIsQuiet ==
    (Ran("onContextMenu") /\ context = NoGroup) => ~threw

\* C12: every listener or gesture-target registration of create() has its
\* handle in toUnbind: after dispose none of them is in force, each has been
\* released once, and no handle more than once.
C12_TeardownReleasesAll ==
    disposed
    => /\ live = {}
       /\ \A r \in CreateRegistrations : released[r] = 1
       /\ \A h \in Handles : released[h] <= 1

\* C13: when a click on the label runs the label's listener and the
\* container's, the focus request of the latter comes before the quick-open
\* request of that click: the request is still pending when the task ends,
\* and runs in a task that starts from the idle loop.
C13_FocusBeforeQuickOpen ==
    /\ [](turn.kind = "event" =>
            \A i \in CallsOf("quickOpenService.show"), j \in CallsOf("focusGroup") : j < i)
    /\ []((Ran("onTitleLabelClick") /\ ~dragged) => timers >= 1)
    /\ [][turn'.kind = "timer" => (turn.kind = "idle" /\ timers' = timers - 1)]_vars

\* C13 witness: both listeners of a click on the label have run, the focus
\* request is out and the quick-open request is pending
C13_Witness ==
    /\ Ran("onTitleLabelClick")
    /\ Ran("onTitleClick")
    /\ turn.ev.target = "label"
    /\ turn.todo = <<>>
    /\ CallsOf("focusGroup") # {}
    /\ CallsOf("quickOpenService.show") = {}
    /\ timers >= 1

\* C15: every pin, close, focus and context-menu request names the group
\* bound when its event is dispatched, and, but for focus, that group's
\* active editor at that moment.
C15_RequestsNameBoundGroup ==
    turn.kind = "event"
    => \A i \in DOMAIN out :
          out[i].op \in {"pinEditor", "closeEditorAction.run", "focusGroup", "showContextMenu"}
          => /\ context # NoGroup
             /\ out[i].group = context
             /\ out[i].op # "focusGroup" => out[i].editor = activeEditor[context]

\* C15 witness: the control is bound to g2, whose editor is not g1's, and the
\* menu is opened for g2 and its editor
C15_Witness ==
    /\ Ran("onContextMenu")
    /\ context = "g2"
    /\ activeEditor["g1"] = "e1"
    /\ activeEditor["g2"] = "e2"
    /\ out = <<onContextMenu("g2", "e2", "titleContainer")>>

\* C16: a failed close is reported once to onUnexpectedError and a close that
\* succeeds is not; neither asks for another close or throws; and with closes
\* pending or settled the loop goes on: the task ends and every event the
\* control listens to can be dispatched.
C16_CloseFailureReportedOnce ==
    /\ turn.kind = "settle"
       => /\ ~threw
          /\ CallsOf("closeEditorAction.run") = {}
          /\ out = IF turn.ran = <<"rejected">> THEN <<onUnexpectedError>> ELSE <<>>
          /\ ENABLED EndTurn
    /\ (turn.kind = "idle" /\ ~disposed)
       => \A e \in Events :
             (/\ (e.type = "click" /\ e.target = "label") => timers < MaxTimers
              /\ (e.type = "click" /\ e.button = MiddleButton) => closes < MaxCloses)
             => ENABLED Dispatch(e)

\* C16 witness: a close has failed and was reported while another is pending
C16_Witness ==
    /\ turn.kind = "settle"
    /\ turn.ran = <<"rejected">>
    /\ out = <<onUnexpectedError>>
    /\ closes = 1

\* C17: the quick-open callback of a label click that runs after the control
\* was disposed asks for nothing and does not throw.
C17_DeferredShowAfterDispose ==
    (turn.kind = "timer" /\ disposed) => (out = <<>> /\ ~threw)

\* C19: a click or tap makes at most one workbench request: none with no
\* context (and it does not throw), a close only for a middle click, never a
\* close for a tap, never a pin or a menu.
C19_AtMostOneRequest ==
    Ran("onTitleClick")
    => /\ Cardinality(CallsOf("closeEditorAction.run") \cup CallsOf("focusGroup")) <= 1
       /\ CallsOf("pinEditor") = {}
       /\ CallsOf("showContextMenu") = {}
       /\ context = NoGroup
          => (CallsOf("closeEditorAction.run") \cup CallsOf("focusGroup") = {} /\ ~threw)
       /\ CallsOf("closeEditorAction.run") # {}
          => (turn.ev.type = "click" /\ turn.ev.button = MiddleButton)
       /\ turn.ev.type = "tap" => CallsOf("closeEditorAction.run") = {}

\* C19 witness: a middle click where the focus rule holds too: only the close
\* is asked for
C19_Witness ==
    /\ Ran("onTitleClick")
    /\ turn.ev.type = "click"
    /\ turn.ev.button = MiddleButton
    /\ turn.ev.target = "titleContainer"
    /\ numGroups = 1
    /\ context # NoGroup
    /\ out = <<closeEditorAction(context, activeEditor[context])>>

----------------------------------------------------------------------------
(* Properties of the binding (SpecBinding) *)

\* C20: the group of the toolbar's context is the bound context: setContext
\* sets both in one step, and doRefresh and the tasks of the event loop
\* (every listener among them) change neither.
C20_ToolbarFollowsContext ==
    /\ [](toolbarContext = context)
    /\ [][(fresh' \/ turn' # turn) => UNCHANGED <<context, toolbarContext>>]_vars

\* C20 witness: the control was bound to g2 and refreshed, and a click has
\* been handled
C20_Witness ==
    /\ Ran("onTitleClick")
    /\ fresh
    /\ label.shown
    /\ context = "g2"
    /\ toolbarContext = "g2"
    /\ out = <<focusGroup("g2")>>

====
